---- MODULE Spec2Model ----
(***************************************************************************)
(* A model of go-caskdb's DiskStore (src/disk_store.go): an append-only   *)
(* log file of records and an in-memory keyDir that maps each key to the  *)
(* location of a record.  The record codec (encodeKV, decodeKV,           *)
(* decodeHeader, NewKeyEntry, headerSize) lives in a file of the          *)
(* repository that is not part of src/; it is modelled from the format    *)
(* section of the specification: three unsigned 32-bit header fields      *)
(* followed by the key bytes and the value bytes.                         *)
(*                                                                         *)
(* Bytes are naturals below 256, a file and a string are sequences of     *)
(* bytes, offsets are 0-based as in the code.                             *)
(***************************************************************************)
EXTENDS Integers, Sequences, FiniteSets, TLC

VARIABLES
    exists,         \* the log file exists in the file system
    disk,           \* the bytes of the log file
    store,          \* "none" | "open" | "closed" | "crashed": the DiskStore value
    keyDir,         \* DiskStore.keyDir: key -> [timestamp, offset, size]
    currentOffset,  \* DiskStore.currentOffset
    pc,             \* per caller: position inside Set ("idle", "write", "advance")
    arg,            \* per caller: the record the running Set is writing
    lastOp,         \* the last completed call and what it returned
    hist,           \* history: the records appended to the log, in physical order
    openLen,        \* history: length of the log when the store was opened
    closedKeyDir,   \* history: the keyDir held by the store at its last Close
    trunc,          \* history: the external truncation of the log, if any
    width,          \* modulus of the unsigned offset type
    procs,          \* the callers that issue operations on the store
    call            \* history: the store when the running Set was called, the
                    \* I/O failure that hit a Set, whether Sets have overlapped

vars == <<exists, disk, store, keyDir, currentOffset, pc, arg, lastOp, hist,
          openLen, closedKeyDir, trunc, width, procs, call>>

----------------------------------------------------------------------------
(* Bounds of the model and the inputs the operations draw from.            *)

MaxRecords == 3

\* Records in the log when more than one caller uses the store.
MaxRacingRecords == 2

\* The records the log may hold under the callers cs.
RecordBound(cs) == IF Cardinality(cs) > 1 THEN MaxRacingRecords ELSE MaxRecords

Keys == {<<>>, <<97>>}
Values == {<<>>, <<120>>}
Timestamps == {7, 300}
Callers == {1, 2}

\* uint32 arithmetic wraps at 2^32; the model checker's integers end at
\* 2^31 - 1, so the store is checked with the widest modulus it can hold.
\* No offset of a log within MaxRecords comes near it.
OffsetModulus == 1073741824

----------------------------------------------------------------------------
(* Record codec.                                                           *)

headerSize == 12

Min(a, b) == IF a < b THEN a ELSE b
Max(a, b) == IF a > b THEN a ELSE b

\* binary.LittleEndian.PutUint32
putUint32(n) ==
    <<n % 256, (n \div 256) % 256, (n \div 65536) % 256, (n \div 16777216) % 256>>

\* binary.LittleEndian.Uint32 of the four bytes of b that start at 0-based at
getUint32(b, at) ==
    b[at + 1] + 256 * b[at + 2] + 65536 * b[at + 3] + 16777216 * b[at + 4]

encodeHeader(timestamp, keySize, valueSize) ==
    putUint32(timestamp) \o putUint32(keySize) \o putUint32(valueSize)

encodeKV(timestamp, key, value) ==
    [size  |-> headerSize + Len(key) + Len(value),
     bytes |-> encodeHeader(timestamp, Len(key), Len(value)) \o key \o value]

decodeHeader(b) ==
    [timestamp |-> getUint32(b, 0),
     keySize   |-> getUint32(b, 4),
     valueSize |-> getUint32(b, 8)]

\* decodeKV slices data by the sizes its header names; a slice that runs
\* past the end of data is a run-time panic.
decodeKV(data) ==
    LET bad == [ok |-> FALSE, timestamp |-> 0, key |-> <<>>, value |-> <<>>]
    IN  IF Len(data) < headerSize THEN bad
        ELSE LET h == decodeHeader(SubSeq(data, 1, headerSize))
                 room == Len(data) - headerSize
             IN  IF h.keySize > room THEN bad
                 ELSE IF h.valueSize > room - h.keySize THEN bad
                 ELSE [ok        |-> TRUE,
                       timestamp |-> h.timestamp,
                       key       |-> SubSeq(data, headerSize + 1, headerSize + h.keySize),
                       value     |-> SubSeq(data, headerSize + h.keySize + 1,
                                            headerSize + h.keySize + h.valueSize)]

NewKeyEntry(timestamp, offset, size) ==
    [timestamp |-> timestamp, offset |-> offset, size |-> size]

----------------------------------------------------------------------------
(* File reads.                                                             *)

\* A conversion that clamps instead of wrapping.
U32Saturated(x) == IF x >= width THEN width - 1 ELSE x

\* uint32(x)
U32(x) == x % width

\* Number of bytes File.Read puts into a buffer of n bytes at position pos.
ReadCount(f, pos, n) == Max(0, Min(n, Len(f) - pos))

\* The buffer of n bytes after File.Read at position pos: make() zeroes it,
\* Read fills what the file still holds.
ReadBuf(f, pos, n) ==
    [i \in 1..n |-> IF pos + i <= Len(f) THEN f[pos + i] ELSE 0]

\* NewDiskStore, line 131: the counter a new store starts with.
InitialOffset == 0

\* The counter not read: every entry at the start of the file.
SetEntryAtZero(timestamp, offset, totalSize) ==
    NewKeyEntry(timestamp, 0, U32(totalSize))

\* Set, line 150: the entry Set installs for a record of totalSize bytes.
SetEntry(timestamp, offset, totalSize) ==
    NewKeyEntry(timestamp, offset, U32(totalSize))

\* The payload's length added instead of the record's.
NextOffsetPayload(offset, totalSize) == U32(offset + U32(totalSize) - headerSize)

\* The counter left where it was.
NextOffsetStale(offset, totalSize) == offset

\* Set, line 152: currentOffset += uint32(totalSize)
NextOffset(offset, totalSize) == U32(offset + U32(totalSize))

\* The running offset never recorded.
RecoveredEntryAtZero(h, offset) ==
    NewKeyEntry(h.timestamp, 0, headerSize + h.keySize + h.valueSize)

\* The payload's length taken for the record's length.
RecoveredEntryPayloadSize(h, offset) ==
    NewKeyEntry(h.timestamp, U32(offset), h.keySize + h.valueSize)

\* getKeyDir, lines 105-106: the entry recovery installs for the record with
\* header h that it found at the running offset.
RecoveredEntry(h, offset) ==
    NewKeyEntry(h.timestamp, U32(offset), headerSize + h.keySize + h.valueSize)

\* os.Create on a file that exists empties it.
OpenedFileCreated(ex, f) == <<>>

\* getKeyDir, lines 72-82: an existing file is opened for reading, a missing
\* one is created empty.
OpenedFile(ex, f) == IF ex THEN f ELSE <<>>

\* The map replaced instead of updated.
KeyDirPutAlone(kd, key, entry) == [k \in {key} |-> entry]

KeyDirPut(kd, key, entry) ==
    [k \in (DOMAIN kd) \cup {key} |-> IF k = key THEN entry ELSE kd[k]]

EmptyKeyDir == [k \in {} |-> NewKeyEntry(0, 0, 0)]

----------------------------------------------------------------------------
(* getKeyDir: the recovery scan.                                           *)

RECURSIVE ScanLog(_, _, _, _)
\* One turn of the for loop: f the file, pos the read handle's position,
\* offset the running offset, kd the keyDir built so far.
ScanLog(f, pos, offset, kd) ==
    LET n      == ReadCount(f, pos, headerSize)
        header == ReadBuf(f, pos, headerSize)
    IN  IF n = 0 THEN [ok |-> TRUE, keyDir |-> kd]
        ELSE LET h      == decodeHeader(header)
                 kvLen  == h.keySize + h.valueSize
                 m      == ReadCount(f, pos + n, kvLen)
                 data   == header \o ReadBuf(f, pos + n, kvLen)
                 total  == headerSize + h.keySize + h.valueSize
             IN  IF m = 0 THEN [ok |-> FALSE, keyDir |-> EmptyKeyDir]
                 ELSE ScanLog(f, pos + n + m, offset + total,
                              KeyDirPut(kd, decodeKV(data).key, RecoveredEntry(h, offset)))

getKeyDir(f) == ScanLog(f, 0, 0, EmptyKeyDir)

----------------------------------------------------------------------------
(* Results of calls.                                                       *)

\* from is the state of the store when the call was made.
NoOp == [op |-> "none", key |-> <<>>, value |-> <<>>, ok |-> TRUE, from |-> "none"]
Done(op, key, value, ok) ==
    [op |-> op, key |-> key, value |-> value, ok |-> ok, from |-> store]

NoTrunc == [at |-> -1, kind |-> "none", live |-> FALSE]

Idle == \A t \in procs : pc[t] = "idle"

NoArg == [key |-> <<>>, value |-> <<>>, timestamp |-> 0]

\* fault is "none", "write" (the append wrote no bytes) or "sync" (the flush
\* failed).
NoCall == [keyDir |-> EmptyKeyDir, offset |-> 0, fault |-> "none", overlap |-> FALSE]

----------------------------------------------------------------------------
(* The operations.                                                         *)

Init ==
    /\ exists = FALSE
    /\ disk = <<>>
    /\ store = "none"
    /\ keyDir = EmptyKeyDir
    /\ currentOffset = 0
    /\ pc = [t \in Callers |-> "idle"]
    /\ arg = [t \in Callers |-> NoArg]
    /\ lastOp = NoOp
    /\ hist = <<>>
    /\ openLen = 0
    /\ closedKeyDir = EmptyKeyDir
    /\ trunc = NoTrunc
    /\ width = OffsetModulus
    /\ procs = {1}
    /\ call = NoCall

\* A missing file reported as an error instead of created.
NewDiskStoreNoCreate ==
    /\ store # "open"
    /\ Idle
    /\ LET r == IF exists THEN getKeyDir(disk) ELSE [ok |-> FALSE, keyDir |-> EmptyKeyDir]
       IN  /\ IF r.ok
              THEN /\ store' = "open"
                   /\ keyDir' = r.keyDir
                   /\ currentOffset' = InitialOffset
                   /\ openLen' = Len(disk)
                   /\ call' = [call EXCEPT !.overlap = FALSE]
              ELSE UNCHANGED <<store, keyDir, currentOffset, openLen, call>>
           /\ lastOp' = Done("open", <<>>, <<>>, r.ok)
    /\ UNCHANGED <<exists, disk, pc, arg, hist, closedKeyDir, trunc, width, procs>>

\* NewDiskStore(fileName): getKeyDir creates the file when it is missing and
\* scans it; an error of the scan is returned and no store is made.
NewDiskStore ==
    /\ store # "open"
    /\ Idle
    /\ exists' = TRUE
    /\ disk' = OpenedFile(exists, disk)
    /\ LET r == getKeyDir(disk')
       IN  /\ IF r.ok
              THEN /\ store' = "open"
                   /\ keyDir' = r.keyDir
                   /\ currentOffset' = InitialOffset
                   /\ openLen' = Len(disk')
                   /\ call' = [call EXCEPT !.overlap = FALSE]
              ELSE UNCHANGED <<store, keyDir, currentOffset, openLen, call>>
           /\ lastOp' = Done("open", <<>>, <<>>, r.ok)
    /\ UNCHANGED <<pc, arg, hist, closedKeyDir, trunc, width, procs>>

\* The lookup's ok ignored: a missing key yields the zero KeyEntry.
GetValueUnchecked(kd, f, key) ==
    LET e == IF key \in DOMAIN kd THEN kd[key] ELSE NewKeyEntry(0, 0, 0)
    IN  decodeKV(ReadBuf(f, e.offset, e.size))

\* Get(key)
GetValue(kd, f, key) ==
    IF key \in DOMAIN kd
    THEN decodeKV(ReadBuf(f, kd[key].offset, kd[key].size))
    ELSE [ok |-> TRUE, timestamp |-> 0, key |-> <<>>, value |-> <<>>]

Get(t, key) ==
    /\ store = "open"
    /\ pc[t] = "idle"
    /\ LET r == GetValue(keyDir, disk, key)
       IN  /\ lastOp' = Done("get", key, r.value, r.ok)
           /\ store' = IF r.ok THEN store ELSE "crashed"
    /\ UNCHANGED <<exists, disk, keyDir, currentOffset, pc, arg, hist, openLen,
                   closedKeyDir, trunc, width, procs, call>>

\* Set(key, value), lines 148-150: take the time, encode, install the entry.
SetInstall(t, key, value, timestamp) ==
    /\ store = "open"
    /\ pc[t] = "idle"
    /\ trunc = NoTrunc
    /\ call.fault = "none"
    /\ Len(hist) + Cardinality({u \in procs : pc[u] = "write"}) < RecordBound(procs)
    /\ keyDir' = KeyDirPut(keyDir, key,
                    SetEntry(timestamp, currentOffset, encodeKV(timestamp, key, value).size))
    /\ pc' = [pc EXCEPT ![t] = "write"]
    /\ arg' = [arg EXCEPT ![t] = [key |-> key, value |-> value, timestamp |-> timestamp]]
    /\ call' = [keyDir  |-> keyDir,
                offset  |-> currentOffset,
                fault   |-> "none",
                overlap |-> call.overlap \/ \E u \in procs \ {t} : pc[u] # "idle"]
    /\ UNCHANGED <<exists, disk, store, currentOffset, lastOp, hist, openLen,
                   closedKeyDir, trunc, width, procs>>

\* Set, line 151: the write handle is in append mode.
SetWrite(t) ==
    /\ pc[t] = "write"
    /\ disk' = disk \o encodeKV(arg[t].timestamp, arg[t].key, arg[t].value).bytes
    /\ hist' = Append(hist, arg[t])
    /\ pc' = [pc EXCEPT ![t] = "advance"]
    /\ UNCHANGED <<exists, store, keyDir, currentOffset, arg, lastOp, openLen,
                   closedKeyDir, trunc, width, procs, call>>

\* Set, lines 152-157: advance the counter, sync, return.
SetAdvance(t) ==
    /\ pc[t] = "advance"
    /\ currentOffset' =
           NextOffset(currentOffset, encodeKV(arg[t].timestamp, arg[t].key, arg[t].value).size)
    /\ pc' = [pc EXCEPT ![t] = "idle"]
    /\ arg' = [arg EXCEPT ![t] = NoArg]
    /\ lastOp' = Done("set", arg[t].key, arg[t].value, TRUE)
    /\ call' = IF call.fault = "none" THEN [NoCall EXCEPT !.overlap = call.overlap] ELSE call
    /\ UNCHANGED <<exists, disk, store, keyDir, hist, openLen, closedKeyDir,
                   trunc, width, procs>>

\* Close()
Close ==
    /\ store = "open"
    /\ Idle
    /\ store' = "closed"
    /\ closedKeyDir' = keyDir
    /\ lastOp' = Done("close", <<>>, <<>>, TRUE)
    /\ UNCHANGED <<exists, disk, keyDir, currentOffset, pc, arg, hist, openLen,
                   trunc, width, procs, call>>

\* The environment cuts the log file short (once): the bytes from 0-based
\* position n on are lost.  A cut inside an earlier record leaves the same
\* file as a cut inside the last record of a shorter log, so n ranges over
\* the last record.
RecSize(r) == headerSize + Len(r.key) + Len(r.value)

RECURSIVE LogSize(_)
LogSize(h) == IF h = <<>> THEN 0 ELSE LogSize(SubSeq(h, 1, Len(h) - 1)) + RecSize(h[Len(h)])

\* Start offset of the i-th record of h.
Start(h, i) == LogSize(SubSeq(h, 1, i - 1))

TornKind(h, n) ==
    LET inside == n - Start(h, Len(h))
    IN  IF inside = 0 THEN "boundary"
        ELSE IF inside < headerSize THEN "header"
        ELSE IF inside = headerSize THEN "afterHeader"
        ELSE "payload"

Truncate(n) ==
    /\ exists
    /\ Idle
    /\ trunc = NoTrunc
    /\ hist # <<>>
    /\ n \in Start(hist, Len(hist)) .. (Len(disk) - 1)
    /\ disk' = SubSeq(disk, 1, n)
    /\ trunc' = [at |-> n, kind |-> TornKind(hist, n), live |-> store = "open"]
    /\ lastOp' = Done("truncate", <<>>, <<>>, TRUE)
    /\ UNCHANGED <<exists, store, keyDir, currentOffset, pc, arg, hist, openLen,
                   closedKeyDir, width, procs, call>>

Next ==
    \/ NewDiskStore
    \/ \E t \in procs, k \in Keys : Get(t, k)
    \/ \E t \in procs, k \in Keys, v \in Values, ts \in Timestamps : SetInstall(t, k, v, ts)
    \/ \E t \in procs : SetWrite(t)
    \/ \E t \in procs : SetAdvance(t)
    \/ Close

Spec == Init /\ [][Next]_vars

\* The store on a file that something else may truncate.
NextTrunc ==
    \/ Next
    \/ \E n \in 0..(MaxRecords * (headerSize + 2)) : Truncate(n)

SpecTrunc == Init /\ [][NextTrunc]_vars

\* Set, line 151, when the write fails: no byte reaches the file and Set,
\* which drops Write's results, goes on.
SetWriteFail(t) ==
    /\ pc[t] = "write"
    /\ call.fault = "none"
    /\ pc' = [pc EXCEPT ![t] = "advance"]
    /\ call' = [call EXCEPT !.fault = "write"]
    /\ UNCHANGED <<exists, disk, store, keyDir, currentOffset, arg, lastOp, hist,
                   openLen, closedKeyDir, trunc, width, procs>>

\* Set, lines 152-156, when Sync returns an error: the counter has advanced
\* and Set panics.
SetSyncFail(t) ==
    /\ pc[t] = "advance"
    /\ call.fault = "none"
    /\ currentOffset' =
           NextOffset(currentOffset, encodeKV(arg[t].timestamp, arg[t].key, arg[t].value).size)
    /\ pc' = [pc EXCEPT ![t] = "idle"]
    /\ arg' = [arg EXCEPT ![t] = NoArg]
    /\ store' = "crashed"
    /\ lastOp' = Done("set", arg[t].key, arg[t].value, FALSE)
    /\ call' = [call EXCEPT !.fault = "sync"]
    /\ UNCHANGED <<exists, disk, keyDir, hist, openLen, closedKeyDir, trunc, width,
                   procs>>

\* The store on a file system whose writes and flushes may fail (once).
NextFail ==
    \/ Next
    \/ \E t \in procs : SetWriteFail(t)
    \/ \E t \in procs : SetSyncFail(t)

SpecFail == Init /\ [][NextFail]_vars

\* Two callers use one store with no lock: their Sets interleave at the
\* steps of Set.
InitConc ==
    /\ exists = FALSE
    /\ disk = <<>>
    /\ store = "none"
    /\ keyDir = EmptyKeyDir
    /\ currentOffset = 0
    /\ pc = [t \in Callers |-> "idle"]
    /\ arg = [t \in Callers |-> NoArg]
    /\ lastOp = NoOp
    /\ hist = <<>>
    /\ openLen = 0
    /\ closedKeyDir = EmptyKeyDir
    /\ trunc = NoTrunc
    /\ width = OffsetModulus
    /\ procs = Callers
    /\ call = NoCall

SpecConc == InitConc /\ [][Next]_vars

\* The store with a narrow offset type, so that a log within MaxRecords
\* outgrows it.
NarrowBits == 4

InitNarrow ==
    /\ exists = FALSE
    /\ disk = <<>>
    /\ store = "none"
    /\ keyDir = EmptyKeyDir
    /\ currentOffset = 0
    /\ pc = [t \in Callers |-> "idle"]
    /\ arg = [t \in Callers |-> NoArg]
    /\ lastOp = NoOp
    /\ hist = <<>>
    /\ openLen = 0
    /\ closedKeyDir = EmptyKeyDir
    /\ trunc = NoTrunc
    /\ width = 2 ^ NarrowBits
    /\ procs = {1}
    /\ call = NoCall

SpecNarrow == InitNarrow /\ [][Next]_vars

----------------------------------------------------------------------------
(* What the history says the store should hold.                            *)

\* Index in h of the physically last record with key k, 0 when there is none.
LastIdx(h, k) ==
    LET S == {i \in 1..Len(h) : h[i].key = k}
    IN  IF S = {} THEN 0 ELSE CHOOSE i \in S : \A j \in S : j <= i

WrittenKeys(h) == {h[i].key : i \in 1..Len(h)}

IsPrefix(a, b) == Len(a) <= Len(b) /\ a = SubSeq(b, 1, Len(a))

\* NewDiskStore has returned and no call was made since.
JustOpened == lastOp.op = "open" /\ Idle

\* Get has returned and no call was made since.
JustGot == lastOp.op = "get" /\ Idle

Torn == trunc.kind \in {"header", "afterHeader", "payload"}

----------------------------------------------------------------------------
(* The claims.                                                             *)

\* C1: last-write-wins: a Get of a key that was ever Set returns, without
\* failing, the value of the most recent Set of that key on the log, in every
\* state the store can reach (sessions on a non-empty log included).
LastWriteWins ==
    (JustGot /\ LastIdx(hist, lastOp.key) > 0)
        => (lastOp.ok /\ lastOp.value = hist[LastIdx(hist, lastOp.key)].value)

\* C2: durability across reopen: after Set(k, v) and Close, NewDiskStore on
\* the same file succeeds and Get(k) returns v for the latest v of every key
\* (empty key and empty value included).
DurableAcrossReopen ==
    (JustOpened /\ lastOp.from = "closed")
        => /\ lastOp.ok
           /\ \A k \in WrittenKeys(hist) :
                  /\ GetValue(keyDir, disk, k).ok
                  /\ GetValue(keyDir, disk, k).value = hist[LastIdx(hist, k)].value

\* C3: recovery reconstructs the index identically: the keyDir NewDiskStore
\* builds after a Close equals the keyDir the store held just before that
\* Close, in every session.
RecoveryRebuildsKeyDir ==
    (JustOpened /\ lastOp.from = "closed")
        => (lastOp.ok /\ keyDir = closedKeyDir)

\* C4: corruption detection: NewDiskStore on a log of complete records that
\* was cut strictly inside a record returns an error and no store.
TornLogRejected ==
    (JustOpened /\ Torn) => ~lastOp.ok

\* C5: missing key: Get of a key that has no record in the log returns the
\* empty string and does not fail.
MissingKeyReturnsEmpty ==
    (JustGot /\ LastIdx(hist, lastOp.key) = 0)
        => (lastOp.ok /\ lastOp.value = <<>>)

MissingKeyWitness ==
    /\ JustGot
    /\ LastIdx(hist, lastOp.key) = 0
    /\ hist # <<>>
    /\ openLen > 0

\* C6: offset accounting: on a store opened on an empty file, after any
\* number of completed Sets the file's length is the sum of the encoded sizes
\* of the records written, and each key's entry has as offset the sum of the
\* sizes of the records before that key's latest record and as size that
\* record's encoded size.
OffsetAccounting ==
    (store = "open" /\ openLen = 0 /\ Idle)
        => /\ Len(disk) = LogSize(hist)
           /\ DOMAIN keyDir = WrittenKeys(hist)
           /\ \A k \in DOMAIN keyDir :
                  /\ keyDir[k].offset = Start(hist, LastIdx(hist, k))
                  /\ keyDir[k].size = encodeKV(hist[LastIdx(hist, k)].timestamp, k,
                                               hist[LastIdx(hist, k)].value).size

OffsetAccountingWitness ==
    /\ store = "open" /\ openLen = 0 /\ Idle
    /\ lastOp.op = "set"
    /\ Len(hist) = 3
    /\ \E k \in DOMAIN keyDir : keyDir[k].offset > headerSize + 1
    /\ \E k \in DOMAIN keyDir : LastIdx(hist, k) = 2

\* C7: KeyEntry bound: at every point after an entry is installed, the step
\* of Set between installing the entry and appending the bytes included,
\* entry.offset + entry.size <= the current length of the log.
EntryWithinFile ==
    store = "open"
        => \A k \in DOMAIN keyDir : keyDir[k].offset + keyDir[k].size <= Len(disk)

\* C8: recovery result: when NewDiskStore succeeds, the keyDir's keys are
\* the keys that occur in the log, and each entry holds the start offset, the
\* total length and the header timestamp of the physically last record with
\* its key.
RecoveryResult ==
    (JustOpened /\ lastOp.ok)
        => /\ DOMAIN keyDir = WrittenKeys(hist)
           /\ \A k \in DOMAIN keyDir :
                  keyDir[k] = [timestamp |-> hist[LastIdx(hist, k)].timestamp,
                               offset    |-> Start(hist, LastIdx(hist, k)),
                               size      |-> RecSize(hist[LastIdx(hist, k)])]

RecoveryResultWitness ==
    /\ JustOpened /\ lastOp.ok
    /\ Len(hist) = 3
    /\ hist[1].key = hist[3].key
    /\ hist[1].timestamp # hist[3].timestamp
    /\ hist[2].key # hist[1].key

\* C9: append-only log: no operation shortens or rewrites the bytes already
\* in the log or removes the file, and the only change to the log is Set's
\* append of exactly the encoded record it was called with.
AppendOnly ==
    [][/\ IsPrefix(disk, disk')
       /\ (exists => exists')
       /\ (disk' # disk =>
              \E t \in procs :
                  /\ pc[t] = "write"
                  /\ disk' = disk \o encodeKV(arg[t].timestamp, arg[t].key, arg[t].value).bytes)
      ]_vars

AppendOnlyWitness ==
    /\ JustOpened /\ lastOp.ok /\ lastOp.from = "closed"
    /\ Len(hist) >= 2
    /\ Len(disk) = LogSize(hist)

\* C10: Get read failure is fatal: when the log was cut after open so that a
\* key's span [offset, offset + size) runs past the end of the file, Get of
\* that key fails instead of returning a value.
GetFailsOnShortRead ==
    (/\ JustGot
     /\ trunc.live
     /\ lastOp.key \in DOMAIN keyDir
     /\ keyDir[lastOp.key].offset + keyDir[lastOp.key].size > Len(disk))
        => ~lastOp.ok

\* C11: Set is all-or-nothing: when a Set has failed (its append wrote no
\* bytes, or its flush failed), the keyDir and currentOffset are what they were
\* when it was called.
SetAllOrNothing ==
    (Idle /\ lastOp.op = "set" /\ call.fault # "none")
        => (keyDir = call.keyDir /\ currentOffset = call.offset)

\* C12: open on a missing file: NewDiskStore creates an empty log and returns
\* a store with an empty keyDir and currentOffset 0, so Get of every key
\* returns the empty string; NewDiskStore on an existing file leaves the file's
\* bytes unchanged.
OpenCreatesOrKeeps ==
    [][(lastOp'.op = "open" /\ lastOp' # lastOp)
         => IF exists
            THEN disk' = disk
            ELSE /\ exists'
                 /\ disk' = <<>>
                 /\ store' = "open"
                 /\ lastOp'.ok
                 /\ keyDir' = EmptyKeyDir
                 /\ currentOffset' = 0
                 /\ \A k \in Keys : GetValue(keyDir', disk', k).ok
                                     /\ GetValue(keyDir', disk', k).value = <<>>
      ]_vars

OpenCreatesWitness ==
    /\ JustOpened /\ lastOp.ok /\ lastOp.from = "none"
    /\ exists /\ disk = <<>> /\ store = "open"

\* C13: index/log consistency: after every completed operation, in sessions
\* opened on a non-empty log too, each key of the keyDir addresses exactly one
\* complete record with that key, the physically last one in the log.
IndexMatchesLog ==
    (store = "open" /\ Idle)
        => \A k \in DOMAIN keyDir :
               /\ LastIdx(hist, k) > 0
               /\ keyDir[k].offset = Start(hist, LastIdx(hist, k))
               /\ keyDir[k].offset + keyDir[k].size <= Len(disk)
               /\ SubSeq(disk, keyDir[k].offset + 1, keyDir[k].offset + keyDir[k].size)
                      = encodeKV(hist[LastIdx(hist, k)].timestamp, k,
                                 hist[LastIdx(hist, k)].value).bytes

\* C14: session counter and file length: after every operation the log's
\* length is its length at open plus currentOffset, so currentOffset is the
\* true end of file exactly when the store was opened on an empty file.
CounterIsSessionBytes ==
    (store = "open" /\ Idle)
        => /\ Len(disk) = openLen + currentOffset
           /\ (currentOffset = Len(disk)) <=> (openLen = 0)

CounterWitness ==
    /\ store = "open" /\ Idle
    /\ openLen > 0
    /\ currentOffset > headerSize
    /\ lastOp.op = "set"

\* A key whose latest record was written before the store was opened.
FromPriorSession(k) ==
    LastIdx(hist, k) > 0 /\ Start(hist, LastIdx(hist, k)) < openLen

\* C15 as stated: on a store opened on a non-empty log, once a Set of another
\* key has appended data, Get of a key inserted in a prior session and not Set
\* again returns something else than the value last written for it.
PriorKeysReadWrong ==
    (JustGot /\ openLen > 0 /\ Len(disk) > openLen /\ FromPriorSession(lastOp.key))
        => ~(lastOp.ok /\ lastOp.value = hist[LastIdx(hist, lastOp.key)].value)

\* C15 as amended: on a store opened on a non-empty log, Get of a key inserted
\* in a prior session and not Set again returns the value last written for it,
\* whatever was appended since; the entry of a key Set in this session holds
\* the record's offset counted from the length of the log at open.
PriorKeysReadRight ==
    /\ (JustGot /\ openLen > 0 /\ FromPriorSession(lastOp.key))
           => (lastOp.ok /\ lastOp.value = hist[LastIdx(hist, lastOp.key)].value)
    /\ (store = "open" /\ Idle)
           => \A k \in DOMAIN keyDir :
                  ~FromPriorSession(k)
                      => keyDir[k].offset = Start(hist, LastIdx(hist, k)) - openLen

PriorKeysWitness ==
    /\ JustGot /\ openLen > 0 /\ Len(disk) > openLen
    /\ FromPriorSession(lastOp.key)
    /\ lastOp.value # <<>>
    /\ \E k \in DOMAIN keyDir : ~FromPriorSession(k) /\ keyDir[k].offset > 0

\* C16: recovery accepts every well-formed log: on a file that is a
\* concatenation of complete records (records with an empty key and an empty
\* value included) NewDiskStore succeeds, with one keyDir key per key of the
\* log.
WellFormedLogAccepted ==
    JustOpened => (lastOp.ok /\ store = "open" /\ DOMAIN keyDir = WrittenKeys(hist))

\* The key of the Set that takes a step, for a step of caller t's Set.
SetKey(t) == IF pc[t] = "idle" THEN arg'[t].key ELSE arg[t].key

\* C18: frame of Set and Get: every step of Set(k, v) leaves the entry of
\* every other key, and what Get returns for it, unchanged; Get changes
\* neither the keyDir, nor currentOffset, nor the log.
SetGetFrame ==
    [][/\ \A t \in procs :
              pc'[t] # pc[t]
                  => \A k \in Keys \ {SetKey(t)} :
                         /\ (k \in DOMAIN keyDir') = (k \in DOMAIN keyDir)
                         /\ k \in DOMAIN keyDir => keyDir'[k] = keyDir[k]
                         /\ GetValue(keyDir', disk', k) = GetValue(keyDir, disk, k)
       /\ (lastOp'.op = "get" /\ lastOp' # lastOp)
              => (keyDir' = keyDir /\ currentOffset' = currentOffset /\ disk' = disk)
      ]_vars

SetGetFrameWitness ==
    /\ lastOp.op = "set" /\ Idle /\ store = "open"
    /\ openLen > 0
    /\ \E k \in DOMAIN keyDir :
           /\ k # lastOp.key
           /\ GetValue(keyDir, disk, k).ok
           /\ GetValue(keyDir, disk, k).value # <<>>

\* An entry that addresses the physically last record of its key.
AddressesOwnRecord(k) ==
    /\ LastIdx(hist, k) > 0
    /\ keyDir[k].offset = Start(hist, LastIdx(hist, k))
    /\ keyDir[k].size = RecSize(hist[LastIdx(hist, k)])

\* C17: unsynchronized concurrent Set: when Sets of two callers interleave
\* at Set's steps, a final state is reachable in which an entry does not
\* address its key's own record; as long as the Sets on a store opened on an
\* empty file are strictly serialized, every entry addresses its own record.
SerializedSetsKeepIndex ==
    (store = "open" /\ Idle /\ openLen = 0 /\ ~call.overlap)
        => \A k \in DOMAIN keyDir : AddressesOwnRecord(k)

RacingSetsBreakIndex ==
    /\ store = "open" /\ Idle /\ openLen = 0
    /\ call.overlap
    /\ Len(hist) = 2
    /\ \E k1, k2 \in DOMAIN keyDir : k1 # k2 /\ keyDir[k1].offset = keyDir[k2].offset
    /\ \E k \in DOMAIN keyDir : ~AddressesOwnRecord(k)

\* C19 as stated: every entry installed by recovery, and by Set on a store
\* opened on an empty file, holds the true start offset of its record, also
\* when the log is longer than the offset type can count.
OffsetsAreTrue ==
    ((store = "open" /\ Idle /\ openLen = 0) \/ (JustOpened /\ lastOp.ok))
        => \A k \in DOMAIN keyDir : keyDir[k].offset = Start(hist, LastIdx(hist, k))

\* C19 as amended: such an entry holds the true start offset of its record
\* reduced modulo 2^w, w the width of the offset type: the true offset when
\* the record starts below 2^w, a wrapped one beyond.
OffsetsAreTrueModWidth ==
    ((store = "open" /\ Idle /\ openLen = 0) \/ (JustOpened /\ lastOp.ok))
        => \A k \in DOMAIN keyDir :
               /\ keyDir[k].offset = Start(hist, LastIdx(hist, k)) % width
               /\ Start(hist, LastIdx(hist, k)) < width
                      => keyDir[k].offset = Start(hist, LastIdx(hist, k))

OffsetsWrapWitness ==
    /\ JustOpened /\ lastOp.ok
    /\ \E k \in DOMAIN keyDir :
           /\ Start(hist, LastIdx(hist, k)) >= width
           /\ keyDir[k].offset < Start(hist, LastIdx(hist, k))

====
